---- MODULE Spec2Model ----
(***************************************************************************)
(* A model of the Fog Maze repository:                                     *)
(*   - contracts/FogMaze.sol : the authority (seed derivation, score,      *)
(*     run submission, per-player statistics and nonce counters);          *)
(*   - frontend/maze.js      : the seeded generator (SeededRandom) and the *)
(*     maze carver (MazeGenerator).                                        *)
(*   - the game clients FogMazeGame and DemoGame (moves, fog of war,       *)
(*     client score).                                                      *)
(* Six specifications share the variables:                                 *)
(*   Spec      the contract as a ledger of serialized transactions,        *)
(*   SpecScore calculateScore applied to drawn inputs,                     *)
(*   SpecMaze  two independent MazeGenerator constructions,                *)
(*   SpecGame  one game client driven by its UI events,                    *)
(*   SpecPrng  one SeededRandom object and the draws made from it,         *)
(*   SpecClient the contract calls of one FogMazeGame page and the chain.  *)
(***************************************************************************)
EXTENDS Integers, Sequences, FiniteSets, TLC

VARIABLES
    blockNumber,     \* block.number of the block the next call executes in
    blockTimestamp,  \* block.timestamp of that block
    playerRuns,      \* mapping(address => Run[])
    playerNonces,    \* mapping(address => uint256)
    events,          \* RunSubmitted events emitted so far, in order
    lastCall,        \* the last transaction: function, sender, outcome
    scoreArgs,       \* SpecScore: the drawn (level, steps, timeTaken)
    scoreRet,        \* SpecScore: what calculateScore returned for them
    clientScore,     \* SpecScore: what each client's calculateScore returned
    mazeArgs,        \* SpecMaze: the drawn (seed, size, level)
    gen,             \* SpecMaze: the MazeGenerator objects, by instance
    game,            \* SpecGame: the fields of the game object
    rng,             \* SpecPrng: a SeededRandom object and its last call
    client,          \* SpecClient: the fields of FogMazeGame the calls use
    clock            \* SpecClient: Date.now(), in seconds

ledgerVars == <<blockNumber, blockTimestamp, playerRuns, playerNonces, events, lastCall>>
scoreVars == <<scoreArgs, scoreRet, clientScore>>
mazeVars == <<mazeArgs, gen>>
gameVars == <<game>>
prngVars == <<rng>>
clientVars == <<client, clock>>
vars == <<blockNumber, blockTimestamp, playerRuns, playerNonces, events, lastCall,
          scoreArgs, scoreRet, clientScore, mazeArgs, gen, game, rng,
          client, clock>>

(***************************************************************************)
(* Program constants of FogMaze.sol.                                       *)
(***************************************************************************)
MAX_RUNS_PER_PLAYER == 100
BLOCK_WINDOW == 256

ERR_NOT_MINED == "Block not yet mined"
ERR_TOO_OLD == "Block too old (>256 blocks)"
ERR_LEVEL == "Invalid level"
ERR_MAX_RUNS == "Max runs reached"
ERR_PANIC == "Panic(0x11)"
OK == "ok"

(***************************************************************************)
(* Bounds of the model.                                                    *)
(***************************************************************************)
\* uint256 is scaled to UintBits bits: checked arithmetic panics above UintMax.
UintBits == 17
\* block.number and block.timestamp when the observation starts.
StartHeight == 300
StartTime == 1000
\* Blocks mined during the observation, and seconds between two blocks.
MaxMined == 1
BlockTime == 12
\* RunSubmitted events (successful submissions) during the observation; a
\* player may start the observation this many records below the cap.
MaxEvents == 1
\* incrementNonce calls per player during the observation.
MaxNonce == 1

UintMax == 2^UintBits - 1
Players == {"p1", "p2"}
\* The submissions a player may send: (level, steps, timeTaken, blockNumber,
\* nonce).  The block references are the oldest block that is valid at the
\* start (it expires with the first block mined), the newest valid one, and
\* the block being mined (stale until the next block is).
Submissions ==
    {<<0, 10, 20, StartHeight - 1, 0>>,
     <<0, 10, 20, StartHeight, 0>>,
     <<0, 10, 20, StartHeight - BLOCK_WINDOW, 1>>,
     <<1, 10, 20, StartHeight - 1, 0>>,
     <<1, 500, 500, StartHeight - BLOCK_WINDOW, 0>>,
     <<3, 200, 100, StartHeight - 1, 1>>,
     <<3, 200, 100, StartHeight, 0>>}
\* The block references the view generateSeed is evaluated on, in every
\* state: those around the two ends of the window of the current height, and
\* those of the submissions.
SeedRefs ==
    {blockNumber - BLOCK_WINDOW + d : d \in -2..2} \cup {blockNumber + d : d \in -2..2}
        \cup {sub[4] : sub \in Submissions}
Nonces == {0, 1}

(***************************************************************************)
(* Solidity 0.8 checked arithmetic: a result is [status, ret].             *)
(***************************************************************************)
Ret(v) == [status |-> OK, ret |-> v]
Revert(msg) == [status |-> msg, ret |-> 0]

checkedMul(a, b) == IF a * b > UintMax THEN Revert(ERR_PANIC) ELSE Ret(a * b)
checkedAdd(a, b) == IF a + b > UintMax THEN Revert(ERR_PANIC) ELSE Ret(a + b)
checkedSub(a, b) == IF a < b THEN Revert(ERR_PANIC) ELSE Ret(a - b)

(***************************************************************************)
(* calculateScore (FogMaze.sol 78-88).                                     *)
(***************************************************************************)
calculateScoreSwapped(level, steps, timeTaken) ==
    LET base == level * 1000
        penalty == (steps * 3) + (timeTaken * 2)
    IN Ret(IF penalty >= base THEN 0 ELSE base - penalty)

calculateScore(level, steps, timeTaken) ==
    LET baseScore == checkedMul(level, 1000)
        stepPen == checkedMul(steps, 2)
        timePen == checkedMul(timeTaken, 3)
        penalty == IF stepPen.status = OK /\ timePen.status = OK
                   THEN checkedAdd(stepPen.ret, timePen.ret)
                   ELSE Revert(ERR_PANIC)
    IN IF baseScore.status # OK \/ penalty.status # OK
       THEN Revert(ERR_PANIC)
       ELSE IF penalty.ret >= baseScore.ret
            THEN Ret(0)
            ELSE checkedSub(baseScore.ret, penalty.ret)

(***************************************************************************)
(* Seed derivation (FogMaze.sol 55-69).                                    *)
(***************************************************************************)
\* The hash of block b in the chain's history: fixed once b is mined.
ChainHash(b) == [blockHashOf |-> b]
ZeroHash == [blockHashOf |-> -1]

\* The EVM's blockhash(b): the hash of one of the 256 most recent blocks, else 0.
blockhash(b) ==
    IF b < blockNumber /\ blockNumber - b <= 256 THEN ChainHash(b) ELSE ZeroHash

\* keccak256(abi.encodePacked(bytes32, address, uint256)): the packing is of
\* fixed widths, hence injective; the hash is taken as collision free.
keccak256Packed(bh, player, nonce) == [bh |-> bh, player |-> player, nonce |-> nonce]

generateSeedNoWindow(bn, player, nonce) ==
    IF ~(bn < blockNumber) THEN Revert(ERR_NOT_MINED)
    ELSE Ret(keccak256Packed(blockhash(bn), player, nonce))

generateSeedOffByOne(bn, player, nonce) ==
    IF ~(bn < blockNumber) THEN Revert(ERR_NOT_MINED)
    ELSE IF ~(blockNumber - bn < BLOCK_WINDOW) THEN Revert(ERR_TOO_OLD)
    ELSE Ret(keccak256Packed(blockhash(bn), player, nonce))

generateSeed(bn, player, nonce) ==
    IF ~(bn < blockNumber) THEN Revert(ERR_NOT_MINED)
    ELSE IF ~(blockNumber - bn <= BLOCK_WINDOW) THEN Revert(ERR_TOO_OLD)
    ELSE Ret(keccak256Packed(blockhash(bn), player, nonce))

(***************************************************************************)
(* submitRun (FogMaze.sol 98-132).                                         *)
(***************************************************************************)
Run(level, steps, timeTaken, seed, timestamp, nonce) ==
    [level |-> level, steps |-> steps, timeTaken |-> timeTaken,
     seed |-> seed, timestamp |-> timestamp, nonce |-> nonce]

RunSubmitted(player, level, steps, timeTaken, seed, score, nonce) ==
    [player |-> player, level |-> level, steps |-> steps, timeTaken |-> timeTaken,
     seed |-> seed, score |-> score, nonce |-> nonce]

submitRunStatusCapOff(sender, level, steps, timeTaken, bn, nonce) ==
    IF ~(level > 0) THEN ERR_LEVEL
    ELSE IF ~(Len(playerRuns[sender]) <= MAX_RUNS_PER_PLAYER) THEN ERR_MAX_RUNS
    ELSE IF generateSeed(bn, sender, nonce).status # OK
         THEN generateSeed(bn, sender, nonce).status
    ELSE calculateScore(level, steps, timeTaken).status

submitRunStatusCapFirst(sender, level, steps, timeTaken, bn, nonce) ==
    IF ~(Len(playerRuns[sender]) < MAX_RUNS_PER_PLAYER) THEN ERR_MAX_RUNS
    ELSE IF ~(level > 0) THEN ERR_LEVEL
    ELSE IF generateSeed(bn, sender, nonce).status # OK
         THEN generateSeed(bn, sender, nonce).status
    ELSE calculateScore(level, steps, timeTaken).status

submitRunStatusNoSeed(sender, level, steps, timeTaken, bn, nonce) ==
    IF ~(level > 0) THEN ERR_LEVEL
    ELSE IF ~(Len(playerRuns[sender]) < MAX_RUNS_PER_PLAYER) THEN ERR_MAX_RUNS
    ELSE calculateScore(level, steps, timeTaken).status

\* submitRun with the nonce required to be the sender's counter.
submitRunStatusNonceChecked(sender, level, steps, timeTaken, bn, nonce) ==
    IF ~(level > 0) THEN ERR_LEVEL
    ELSE IF ~(Len(playerRuns[sender]) < MAX_RUNS_PER_PLAYER) THEN ERR_MAX_RUNS
    ELSE IF nonce # playerNonces[sender] THEN "Invalid nonce"
    ELSE IF generateSeed(bn, sender, nonce).status # OK
         THEN generateSeed(bn, sender, nonce).status
    ELSE calculateScore(level, steps, timeTaken).status

\* The outcome of the requires and internal calls, in the order of the code.
submitRunStatus(sender, level, steps, timeTaken, bn, nonce) ==
    IF ~(level > 0) THEN ERR_LEVEL
    ELSE IF ~(Len(playerRuns[sender]) < MAX_RUNS_PER_PLAYER) THEN ERR_MAX_RUNS
    ELSE IF generateSeed(bn, sender, nonce).status # OK
         THEN generateSeed(bn, sender, nonce).status
    ELSE calculateScore(level, steps, timeTaken).status

pushedRunSwapped(sender, level, steps, timeTaken, bn, nonce) ==
    Run(level, timeTaken, steps, generateSeed(bn, sender, nonce).ret,
        blockTimestamp, nonce)

\* The record pushed by a successful submission.
pushedRun(sender, level, steps, timeTaken, bn, nonce) ==
    Run(level, steps, timeTaken, generateSeed(bn, sender, nonce).ret,
        blockTimestamp, nonce)

pushRunShared(sender, level, steps, timeTaken, bn, nonce) ==
    [p \in Players |->
        Append(playerRuns[p], pushedRun(sender, level, steps, timeTaken, bn, nonce))]

\* playerRuns after a successful submission.
pushRun(sender, level, steps, timeTaken, bn, nonce) ==
    [playerRuns EXCEPT ![sender] =
        Append(@, pushedRun(sender, level, steps, timeTaken, bn, nonce))]

\* A transaction: the function called, msg.sender, and the outcome.
Call(op, sender, status) == [op |-> op, sender |-> sender, status |-> status]
NoCall == Call("none", "none", OK)

SubmitRunAdvancing(sender, level, steps, timeTaken, bn, nonce) ==
    LET status == submitRunStatus(sender, level, steps, timeTaken, bn, nonce)
        seed == generateSeed(bn, sender, nonce).ret
        score == calculateScore(level, steps, timeTaken).ret
    IN /\ status = OK => Len(events) < MaxEvents
       /\ IF status = OK
          THEN /\ playerRuns' = pushRun(sender, level, steps, timeTaken, bn, nonce)
               /\ events' = Append(events,
                     RunSubmitted(sender, level, steps, timeTaken, seed, score, nonce))
               /\ playerNonces' = [playerNonces EXCEPT ![sender] = @ + 1]
          ELSE UNCHANGED <<playerRuns, events, playerNonces>>
       /\ lastCall' = Call("submitRun", sender, status)
       /\ UNCHANGED <<blockNumber, blockTimestamp>>

SubmitRun(sender, level, steps, timeTaken, bn, nonce) ==
    LET status == submitRunStatus(sender, level, steps, timeTaken, bn, nonce)
        seed == generateSeed(bn, sender, nonce).ret
        score == calculateScore(level, steps, timeTaken).ret
    IN /\ status = OK => Len(events) < MaxEvents
       /\ IF status = OK
          THEN /\ playerRuns' = pushRun(sender, level, steps, timeTaken, bn, nonce)
               /\ events' = Append(events,
                     RunSubmitted(sender, level, steps, timeTaken, seed, score, nonce))
          ELSE UNCHANGED <<playerRuns, events>>
       /\ lastCall' = Call("submitRun", sender, status)
       /\ UNCHANGED <<blockNumber, blockTimestamp, playerNonces>>

(***************************************************************************)
(* The view functions, as functions of the contract's state, and          *)
(* incrementNonce (FogMaze.sol 139-188).                                   *)
(***************************************************************************)
bestScoreStepLast(run, acc) ==
    IF acc.status # OK THEN acc
    ELSE calculateScore(run.level, run.steps, run.timeTaken)

\* getBestScore, one iteration of its loop: acc is the outcome so far.
bestScoreStep(run, acc) ==
    IF acc.status # OK THEN acc
    ELSE LET score == calculateScore(run.level, run.steps, run.timeTaken)
         IN IF score.status # OK THEN score
            ELSE IF score.ret > acc.ret THEN score ELSE acc

\* The loop "for (i = 0; i < runs.length; i++)", here with 1-based i.  It is
\* unrolled sixteen iterations at a time to keep the evaluation shallow.
bestScoreIter(runs, i, acc) ==
    IF i <= Len(runs) THEN bestScoreStep(runs[i], acc) ELSE acc

bestScoreIter4(runs, i, acc) ==
    bestScoreIter(runs, i + 3,
        bestScoreIter(runs, i + 2,
            bestScoreIter(runs, i + 1,
                bestScoreIter(runs, i, acc))))

bestScoreIter16(runs, i, acc) ==
    bestScoreIter4(runs, i + 12,
        bestScoreIter4(runs, i + 8,
            bestScoreIter4(runs, i + 4,
                bestScoreIter4(runs, i, acc))))

RECURSIVE bestScoreLoop(_, _, _)
bestScoreLoop(runs, i, acc) ==
    IF i <= Len(runs) /\ acc.status = OK
    THEN bestScoreLoop(runs, i + 16, bestScoreIter16(runs, i, acc))
    ELSE acc

getBestScore(player) == bestScoreLoop(playerRuns[player], 1, Ret(0))
getRuns(player) == Ret(playerRuns[player])
getRunCount(player) == Ret(Len(playerRuns[player]))
getNextNonce(sender) == Ret(playerNonces[sender])

IncrementNonce(sender) ==
    /\ playerNonces[sender] < MaxNonce
    /\ playerNonces' = [playerNonces EXCEPT ![sender] = @ + 1]
    /\ lastCall' = Call("incrementNonce", sender, OK)
    /\ UNCHANGED <<blockNumber, blockTimestamp, playerRuns, events>>

(***************************************************************************)
(* The environment: the chain mines the next block.                        *)
(***************************************************************************)
Mine ==
    /\ blockNumber < StartHeight + MaxMined
    /\ blockNumber' = blockNumber + 1
    /\ blockTimestamp' = blockTimestamp + BlockTime
    /\ lastCall' = NoCall
    /\ UNCHANGED <<playerRuns, playerNonces, events>>

(***************************************************************************)
(* The contract's state when the observation starts: a fresh deployment,   *)
(* or one in which a player has already stored MAX_RUNS_PER_PLAYER or      *)
(* MAX_RUNS_PER_PLAYER - MaxEvents records, each the record of             *)
(* submitRun(1, 10, 20, StartHeight - 1, 0) sent in the current block.     *)
(***************************************************************************)
Backlog(p, n) ==
    [i \in 1..n |->
        Run(1, 10, 20, keccak256Packed(ChainHash(StartHeight - 1), p, 0), StartTime, 0)]

InitLedger ==
    /\ blockNumber = StartHeight
    /\ blockTimestamp = StartTime
    /\ playerRuns \in [Players -> {<<>>}] \cup
          {[p \in Players |-> IF p = q THEN Backlog(p, n) ELSE <<>>] :
              q \in Players,
              n \in {MAX_RUNS_PER_PLAYER - MaxEvents, MAX_RUNS_PER_PLAYER}}
    /\ playerNonces = [p \in Players |-> 0]
    /\ events = <<>>
    /\ lastCall = NoCall

IdleLedger ==
    /\ blockNumber = StartHeight
    /\ blockTimestamp = StartTime
    /\ playerRuns = [p \in Players |-> <<>>]
    /\ playerNonces = [p \in Players |-> 0]
    /\ events = <<>>
    /\ lastCall = NoCall

NextLedger ==
    \/ \E p \in Players, sub \in Submissions :
          SubmitRun(p, sub[1], sub[2], sub[3], sub[4], sub[5])
    \/ \E s \in Players : IncrementNonce(s)
    \/ Mine

(***************************************************************************)
(* SpecScore: calculateScore as a pure function of drawn inputs.           *)
(***************************************************************************)
ScoreLevels == {0, 1, 2, 3, 131, 132}
ScoreSteps == {0, 10, 200, 500, 1500, 65535, 65536}
ScoreTimes == {0, 20, 100, 500, 1000, 43690, 43691}
NoScore == [status |-> "none", ret |-> 0]

\* The clients' calculateScore (FogMazeGame, part_002 907-911; DemoGame,
\* part_001 244-248).  The arguments are integers far below 2^53, so the
\* double arithmetic of JavaScript is exact.
Max(a, b) == IF a >= b THEN a ELSE b

clientCalculateScoreUnclamped(level, steps, timeTaken) ==
    LET baseScore == level * 1000
        penalty == steps * 2 + timeTaken * 3
    IN baseScore - penalty

clientCalculateScore(level, steps, timeTaken) ==
    LET baseScore == level * 1000
        penalty == steps * 2 + timeTaken * 3
    IN Max(0, baseScore - penalty)

demoCalculateScore(level, steps, timeTaken) ==
    LET baseScore == level * 1000
        penalty == steps * 2 + timeTaken * 3
    IN Max(0, baseScore - penalty)

Clients == {"FogMazeGame", "DemoGame"}
NotCalled == [called |-> FALSE, ret |-> 0]
Returned(v) == [called |-> TRUE, ret |-> v]

InitScore ==
    /\ scoreArgs \in ScoreLevels \X ScoreSteps \X ScoreTimes
    /\ scoreRet = NoScore
    /\ clientScore = [c \in Clients |-> NotCalled]

IdleScore ==
    /\ scoreArgs = <<0, 0, 0>>
    /\ scoreRet = NoScore
    /\ clientScore = [c \in Clients |-> NotCalled]

CalculateScoreCall ==
    /\ scoreRet = NoScore
    /\ scoreRet' = calculateScore(scoreArgs[1], scoreArgs[2], scoreArgs[3])
    /\ UNCHANGED <<scoreArgs, clientScore>>

ClientScoreCall(c) ==
    /\ ~clientScore[c].called
    /\ clientScore' =
          [clientScore EXCEPT ![c] =
              Returned(IF c = "FogMazeGame"
                       THEN clientCalculateScore(scoreArgs[1], scoreArgs[2], scoreArgs[3])
                       ELSE demoCalculateScore(scoreArgs[1], scoreArgs[2], scoreArgs[3]))]
    /\ UNCHANGED <<scoreArgs, scoreRet>>

NextScore ==
    \/ CalculateScoreCall
    \/ \E c \in Clients : ClientScoreCall(c)

(***************************************************************************)
(* SeededRandom (maze.js 7-49).  The state is a 32-bit unsigned integer,   *)
(* kept as two 16-bit limbs [hi, lo] so that no intermediate product       *)
(* exceeds 32-bit integers.  JavaScript computes a*state + c below         *)
(* 2^53, hence exactly, and state / 2^32 * n exactly for the small n used. *)
(***************************************************************************)
LCG_A == 1664525
LCG_C == 1013904223
Limb == 65536

\* A seed: its first 4 bytes as limbs, and a tag for the other 28 bytes.
SeedOf(hi, lo, tail) == [head |-> [hi |-> hi, lo |-> lo], tail |-> tail]

\* constructor: parseInt(seedStr.slice(0, 8), 16) || 1
SeededRandomReused(seed) ==
    IF \E j \in DOMAIN gen : gen[j].pc = "done"
    THEN gen[CHOOSE j \in DOMAIN gen : gen[j].pc = "done"].prng
    ELSE IF seed.head.hi = 0 /\ seed.head.lo = 0 THEN [hi |-> 0, lo |-> 1]
    ELSE seed.head

\* A constructor that also reads the bytes after the first four.
SeededRandomWholeSeed(seed) ==
    IF seed.head.hi = 0 /\ (seed.head.lo + seed.tail) % Limb = 0 THEN [hi |-> 0, lo |-> 1]
    ELSE [hi |-> seed.head.hi, lo |-> (seed.head.lo + seed.tail) % Limb]

SeededRandom(seed) ==
    IF seed.head.hi = 0 /\ seed.head.lo = 0 THEN [hi |-> 0, lo |-> 1] ELSE seed.head

\* The update with the carry out of the low limb dropped.
nextNoCarry(state) ==
    LET low == (LCG_A % Limb) * state.lo + (LCG_C % Limb)
        mid == (LCG_A \div Limb) * state.lo + (LCG_A % Limb) * state.hi
    IN [hi |-> ((mid % Limb) + (LCG_C \div Limb)) % Limb,
        lo |-> low % Limb]

\* next(): state = (a * state + c) % 2^32
next(state) ==
    LET low == (LCG_A % Limb) * state.lo + (LCG_C % Limb)
        mid == (LCG_A \div Limb) * state.lo + (LCG_A % Limb) * state.hi
    IN [hi |-> ((mid % Limb) + (LCG_C \div Limb) + (low \div Limb)) % Limb,
        lo |-> low % Limb]

\* nextInt(min, max): Math.floor(this.next() * (max - min)) + min
nextInt(state, min, max) ==
    LET s == next(state)
        n == max - min
    IN [state |-> s,
        value |-> ((s.hi * n + ((s.lo * n) \div Limb)) \div Limb) + min]

Swap(arr, a, b) == [arr EXCEPT ![a] = arr[b], ![b] = arr[a]]

\* shuffle(array): Fisher-Yates, i from length - 1 down to 1 (0-based i, j).
RECURSIVE shuffleLoop(_, _, _)
shuffleLoop(state, arr, i) ==
    IF i > 0
    THEN LET d == nextInt(state, 0, i + 1)
         IN shuffleLoop(d.state, Swap(arr, i + 1, d.value + 1), i - 1)
    ELSE [state |-> state, arr |-> arr]

shuffle(state, array) == shuffleLoop(state, array, Len(array) - 1)

(***************************************************************************)
(* SpecPrng: one SeededRandom object is constructed from a drawn seed and  *)
(* next() and nextInt(min, max) are called on it.                          *)
(***************************************************************************)
MaxDraws == 4
PrngSeeds == {SeedOf(0, 0, 0), SeedOf(0, 0, 1), SeedOf(0, 1, 0), SeedOf(65535, 65535, 0),
              SeedOf(4660, 22136, 0), SeedOf(51966, 47806, 0), SeedOf(32768, 0, 0)}
PrngRanges == {<<0, 1>>, <<0, 2>>, <<0, 4>>, <<-3, 5>>, <<7, 8>>, <<0, 400>>}
NoPrng == [pc |-> "new"]

InitPrng == rng = NoPrng
IdlePrng == rng = NoPrng

NewSeededRandom(seed) ==
    /\ rng.pc = "new"
    /\ rng' = [pc |-> "ready", seed |-> seed, state |-> SeededRandom(seed),
               draws |-> 0, op |-> "constructor", min |-> 0, max |-> 0, ret |-> 0]

NextCall ==
    /\ rng.pc = "ready"
    /\ rng.draws < MaxDraws
    /\ rng' = [rng EXCEPT !.state = next(rng.state), !.draws = @ + 1,
                          !.op = "next", !.min = 0, !.max = 0, !.ret = 0]

NextIntCall(min, max) ==
    /\ rng.pc = "ready"
    /\ rng.draws < MaxDraws
    /\ LET d == nextInt(rng.state, min, max)
       IN rng' = [rng EXCEPT !.state = d.state, !.draws = @ + 1,
                             !.op = "nextInt", !.min = min, !.max = max,
                             !.ret = d.value]

NextPrng ==
    \/ \E seed \in PrngSeeds : NewSeededRandom(seed)
    \/ NextCall
    \/ \E r \in PrngRanges : NextIntCall(r[1], r[2])

(***************************************************************************)
(* MazeGenerator (maze.js 51-384).  A generator g is a record of the       *)
(* object's fields, plus the call stack of recursiveBacktrack and the      *)
(* position pc of the constructor's call of generate().                    *)
(***************************************************************************)
WALL == 0
PATH == 1
START == 2
EXIT == 3

\* Directions: N, E, S, W
directions == <<[dx |-> 0, dy |-> -1], [dx |-> 1, dy |-> 0],
                [dx |-> 0, dy |-> 1], [dx |-> -1, dy |-> 0]>>

isValidCell(g, x, y) == x >= 0 /\ x < g.size /\ y >= 0 /\ y < g.size
isValid(g, x, y) == x >= 0 /\ x < g.gridSize /\ y >= 0 /\ y < g.gridSize

SetGrid(g, x, y, code) == [g EXCEPT !.grid[y][x] = code]

\* recursiveBacktrack(cellX, cellY) up to its loop: mark, code, shuffle.
enterCell(g, cellX, cellY) ==
    LET sh == shuffle(g.prng, directions)
    IN [g EXCEPT !.visited[cellY][cellX] = TRUE,
                 !.grid[cellY * 2 + 1][cellX * 2 + 1] = PATH,
                 !.prng = sh.state,
                 !.stack = Append(@, [cellX |-> cellX, cellY |-> cellY,
                                      shuffled |-> sh.arr, k |-> 1])]

\* The wall cell between grid cell (gx, gy) and its neighbour in direction dir.
wallBeyond(gx, gy, dir) == [x |-> gx + 2 * dir.dx, y |-> gy + 2 * dir.dy]
wallBetween(gx, gy, dir) == [x |-> gx + dir.dx, y |-> gy + dir.dy]

\* One iteration of the loop of the innermost recursiveBacktrack call, or
\* its return when the loop is over.
carveStep(g) ==
    LET top == g.stack[Len(g.stack)]
        dir == top.shuffled[top.k]
        nx == top.cellX + dir.dx
        ny == top.cellY + dir.dy
        wall == wallBetween(top.cellX * 2 + 1, top.cellY * 2 + 1, dir)
        adv == [g EXCEPT !.stack[Len(g.stack)].k = @ + 1]
    IN IF top.k > Len(top.shuffled)
       THEN [g EXCEPT !.stack = SubSeq(@, 1, Len(@) - 1),
                      !.pc = IF Len(g.stack) = 1 THEN "braid" ELSE "carve"]
       ELSE IF isValidCell(g, nx, ny) /\ ~g.visited[ny][nx]
            THEN enterCell(SetGrid(adv, wall.x, wall.y, PATH), nx, ny)
            ELSE adv

\* The constructor with carving started at logical cell (0, 0).
MazeGeneratorAtOrigin(seed, size, level) ==
    enterCell([seed |-> seed, size |-> size, level |-> level,
               prng |-> SeededRandom(seed),
               gridSize |-> size * 2 + 1,
               grid |-> [y \in 0..(size * 2) |-> [x \in 0..(size * 2) |-> WALL]],
               visited |-> [y \in 0..(size - 1) |-> [x \in 0..(size - 1) |-> FALSE]],
               startX |-> -1, startY |-> -1, exitX |-> -1, exitY |-> -1,
               stack |-> <<>>, pc |-> "carve"],
              0, 0)

\* constructor, and generate() up to its call of recursiveBacktrack.
MazeGenerator(seed, size, level) ==
    enterCell([seed |-> seed, size |-> size, level |-> level,
               prng |-> SeededRandom(seed),
               gridSize |-> size * 2 + 1,
               grid |-> [y \in 0..(size * 2) |-> [x \in 0..(size * 2) |-> WALL]],
               visited |-> [y \in 0..(size - 1) |-> [x \in 0..(size - 1) |-> FALSE]],
               startX |-> -1, startY |-> -1, exitX |-> -1, exitY |-> -1,
               stack |-> <<>>, pc |-> "carve"],
              size \div 2, size \div 2)

\* getWalls(x, y): the adjacent wall cells, in the order N, E, S, W.
getWalls(g, x, y) ==
    LET around == [k \in 1..4 |-> [x |-> x + directions[k].dx, y |-> y + directions[k].dy]]
    IN SelectSeq(around, LAMBDA c : isValid(g, c.x, c.y) /\ g.grid[c.y][c.x] = WALL)

\* countNeighborPaths(x, y)
countNeighborPaths(g, x, y) ==
    Cardinality({k \in 1..4 :
        /\ isValid(g, x + directions[k].dx, y + directions[k].dy)
        /\ g.grid[y + directions[k].dy][x + directions[k].dx] >= 1})

\* findDeadEnds(): the scan for y < size, x < size, then the shuffle.
findDeadEnds(g) ==
    LET scan == [k \in 1..(g.size * g.size) |->
                    [x |-> (k - 1) % g.size, y |-> (k - 1) \div g.size]]
        deadEnds == SelectSeq(scan, LAMBDA c :
                        g.grid[c.y][c.x] = PATH /\ countNeighborPaths(g, c.x, c.y) = 1)
    IN shuffle(g.prng, deadEnds)

\* Math.floor(deadEnds.length * Math.min(level * 0.05, 0.3)).  The doubles
\* give the same integer as the exact quotient for every length below 400
\* and every level below 12.
numToRemove(level, length) ==
    (length * (IF level * 5 < 30 THEN level * 5 ELSE 30)) \div 100

RECURSIVE braidLoop(_, _, _, _)
braidLoop(g, deadEnds, i, n) ==
    IF i < n
    THEN LET cell == deadEnds[i + 1]
             walls == getWalls(g, cell.x, cell.y)
             d == nextInt(g.prng, 0, Len(walls))
             wall == walls[d.value + 1]
         IN IF Len(walls) > 0
            THEN braidLoop([SetGrid(g, wall.x, wall.y, PATH) EXCEPT !.prng = d.state],
                           deadEnds, i + 1, n)
            ELSE braidLoop(g, deadEnds, i + 1, n)
    ELSE g

\* addBraiding(Math.min(level * 0.05, 0.3))
addBraiding(g) ==
    LET found == findDeadEnds(g)
    IN [braidLoop([g EXCEPT !.prng = found.state], found.arr, 0,
                  numToRemove(g.level, Len(found.arr)))
        EXCEPT !.pc = "pick"]

\* The scan of the outermost ring instead of the border inside it.
getEdgePathCellsRing(g, side) ==
    LET odd == [k \in 1..g.size |-> 2 * k - 1]
        line == [k \in 1..g.size |->
                    CASE side = 0 -> [x |-> odd[k], y |-> 0]
                      [] side = 1 -> [x |-> g.gridSize - 1, y |-> odd[k]]
                      [] side = 2 -> [x |-> odd[k], y |-> g.gridSize - 1]
                      [] side = 3 -> [x |-> 0, y |-> odd[k]]]
    IN SelectSeq(line, LAMBDA c : g.grid[c.y][c.x] = PATH)

\* getEdgePathCells(side): 0 top, 1 right, 2 bottom, 3 left.
getEdgePathCells(g, side) ==
    LET odd == [k \in 1..g.size |-> 2 * k - 1]
        line == [k \in 1..g.size |->
                    CASE side = 0 -> [x |-> odd[k], y |-> 1]
                      [] side = 1 -> [x |-> g.gridSize - 2, y |-> odd[k]]
                      [] side = 2 -> [x |-> odd[k], y |-> g.gridSize - 2]
                      [] side = 3 -> [x |-> 1, y |-> odd[k]]]
    IN SelectSeq(line, LAMBDA c : g.grid[c.y][c.x] = PATH)

sameSide(side) == side
nextSide(side) == (side + 1) % 4
oppositeSide(side) == (side + 2) % 4

\* pickStartAndExit()
pickStartAndExit(g) ==
    LET d0 == nextInt(g.prng, 0, 4)
        side == d0.value
        startCells == getEdgePathCells(g, side)
        d1 == nextInt(d0.state, 0, Len(startCells))
        s1 == IF Len(startCells) = 0 THEN d0.state ELSE d1.state
        start == IF Len(startCells) = 0 THEN [x |-> 1, y |-> 1]
                 ELSE startCells[d1.value + 1]
        exitCells == getEdgePathCells(g, oppositeSide(side))
        d2 == nextInt(s1, 0, Len(exitCells))
        s2 == IF Len(exitCells) = 0 THEN s1 ELSE d2.state
        exit == IF Len(exitCells) = 0
                THEN [x |-> g.gridSize - 2, y |-> g.gridSize - 2]
                ELSE exitCells[d2.value + 1]
    IN [g EXCEPT !.prng = s2, !.startX = start.x, !.startY = start.y,
                 !.exitX = exit.x, !.exitY = exit.y, !.pc = "mark"]

\* generate(), its last two assignments: the start, then the exit.
markStartAndExit(g) ==
    [SetGrid(SetGrid(g, g.startX, g.startY, START), g.exitX, g.exitY, EXIT)
     EXCEPT !.pc = "done"]

(***************************************************************************)
(* SpecMaze: two MazeGenerator objects are constructed from the same       *)
(* (seed, size, level), one after the other in either order (JavaScript    *)
(* runs a constructor to completion).                                      *)
(***************************************************************************)
MaxSize == 3
MaxLevel == 3
Instances == {1, 2}
Seeds == {SeedOf(0, 0, 0), SeedOf(0, 1, 0), SeedOf(65535, 65535, 0),
          SeedOf(4660, 22136, 0), SeedOf(4660, 22136, 1), SeedOf(51966, 47806, 0)}
\* Inputs of the size of the smallest mazes in which braiding opens a wall
\* (seeds 0xb0e91faf, 0x7f47c238, 0x8eed7762, 0x62e1264e).
BraidInputs == {SeedOf(45289, 8111, 0), SeedOf(32583, 49720, 0),
                SeedOf(36589, 30562, 0), SeedOf(25313, 9806, 0)} \X {8} \X {5, 6}
MazeInputs == (Seeds \X (1..MaxSize) \X (1..MaxLevel)) \cup BraidInputs

NotConstructed == [pc |-> "new"]
Running(i) == gen[i].pc \notin {"new", "done"}

InitMaze ==
    /\ mazeArgs \in MazeInputs
    /\ gen = [i \in Instances |-> NotConstructed]

IdleMaze ==
    /\ mazeArgs = <<SeedOf(0, 0, 0), 1, 1>>
    /\ gen = [i \in Instances |-> NotConstructed]

Construct(i) ==
    /\ gen[i].pc = "new"
    /\ \A j \in Instances : ~Running(j)
    /\ gen' = [gen EXCEPT ![i] = MazeGenerator(mazeArgs[1], mazeArgs[2], mazeArgs[3])]
    /\ UNCHANGED mazeArgs

CarveStep(i) ==
    /\ gen[i].pc = "carve"
    /\ gen' = [gen EXCEPT ![i] = carveStep(gen[i])]
    /\ UNCHANGED mazeArgs

AddBraiding(i) ==
    /\ gen[i].pc = "braid"
    /\ gen' = [gen EXCEPT ![i] = addBraiding(gen[i])]
    /\ UNCHANGED mazeArgs

PickStartAndExit(i) ==
    /\ gen[i].pc = "pick"
    /\ gen' = [gen EXCEPT ![i] = pickStartAndExit(gen[i])]
    /\ UNCHANGED mazeArgs

MarkStartAndExit(i) ==
    /\ gen[i].pc = "mark"
    /\ gen' = [gen EXCEPT ![i] = markStartAndExit(gen[i])]
    /\ UNCHANGED mazeArgs

NextMaze ==
    \E i \in Instances :
        \/ Construct(i)
        \/ CarveStep(i)
        \/ AddBraiding(i)
        \/ PickStartAndExit(i)
        \/ MarkStartAndExit(i)

(***************************************************************************)
(* The game client (FogMazeGame, unnamed/part_002 186-911; DemoGame,       *)
(* unnamed/part_001 14-248, has the same handlers).  Coordinates of the    *)
(* revealed set are kept in half cells, because revealArea steps from      *)
(* c - radius in steps of 1 and the radius 1.5 makes them fractional: the  *)
(* key `${x},${y}` of x = 2.5 is the pair with first component 5.          *)
(***************************************************************************)
\* generate() run to completion.  Each intermediate generator is bound by a
\* singleton set, so that it is computed once.
The(S) == CHOOSE r \in S : TRUE

carveIter(g) == IF g.pc = "carve" THEN carveStep(g) ELSE g

carveIter4(g) ==
    The({carveIter(d) : d \in {carveIter(c) : c \in {carveIter(b) :
            b \in {carveIter(a) : a \in {g}}}}})

carveIter16(g) ==
    The({carveIter4(d) : d \in {carveIter4(c) : c \in {carveIter4(b) :
            b \in {carveIter4(a) : a \in {g}}}}})

RECURSIVE carveLoop(_)
carveLoop(g) ==
    The({IF a.pc = "carve" THEN The({carveLoop(b) : b \in {carveIter16(a)}}) ELSE a :
            a \in {g}})

generate(seed, size, level) ==
    The({markStartAndExit(d) : d \in {pickStartAndExit(c) : c \in {addBraiding(b) :
            b \in {carveLoop(a) : a \in {MazeGenerator(seed, size, level)}}}}})

\* LEVEL_CONFIG.  size is scaled down (the source has 10, 15, 20, 25, 30);
\* vision2 is the vision radius in half cells (the source has 2, 2, 1.5,
\* 1.5, 1); timer tells whether the level has a countdown.
LEVEL_CONFIG ==
    <<[size |-> 2, vision2 |-> 4, timer |-> FALSE],
      [size |-> 2, vision2 |-> 4, timer |-> TRUE],
      [size |-> 3, vision2 |-> 3, timer |-> TRUE],
      [size |-> 3, vision2 |-> 3, timer |-> TRUE],
      [size |-> 8, vision2 |-> 2, timer |-> TRUE]>>
Levels == DOMAIN LEVEL_CONFIG

\* Accepted moves explored per game.
MaxSteps == 3

\* The seeds of the games (0x274d9825: at level 5 braiding opens the ring
\* cell above the start; 0x52e6b438: at levels 1 and 2 the exit is two
\* moves from the start).
GameSeeds == {SeedOf(10061, 38949, 0), SeedOf(21222, 46136, 0)}

\* new MazeGenerator(seed, config.size, currentLevel), for every game input.
GameMazes ==
    [in \in GameSeeds \X Levels |-> generate(in[1], LEVEL_CONFIG[in[2]].size, in[2])]

Pos(x, y) == [x |-> x, y |-> y]
mazeLength(g) == Cardinality(DOMAIN g.maze)
Key(x, y) == <<2 * x, 2 * y>>

revealAreaCumulative(g, cx, cy, radius2) ==
    LET steps == 0..radius2
        ys == {2 * cy - radius2 + 2 * k : k \in steps}
        xs == {2 * cx - radius2 + 2 * k : k \in steps}
    IN g.revealed \cup {Key(g.exitPos.x, g.exitPos.y)} \cup
       {<<x2, y2>> \in xs \X ys :
           /\ x2 >= 0 /\ x2 < 2 * mazeLength(g) /\ y2 >= 0 /\ y2 < 2 * mazeLength(g)
           /\ (x2 - 2 * cx) * (x2 - 2 * cx) + (y2 - 2 * cy) * (y2 - 2 * cy)
                 <= radius2 * radius2}

\* revealArea(cx, cy, radius): the new revealed set.
revealArea(g, cx, cy, radius2) ==
    LET steps == 0..radius2
        ys == {2 * cy - radius2 + 2 * k : k \in steps}
        xs == {2 * cx - radius2 + 2 * k : k \in steps}
    IN {Key(g.exitPos.x, g.exitPos.y)} \cup
       {<<x2, y2>> \in xs \X ys :
           /\ x2 >= 0 /\ x2 < 2 * mazeLength(g) /\ y2 >= 0 /\ y2 < 2 * mazeLength(g)
           /\ (x2 - 2 * cx) * (x2 - 2 * cx) + (y2 - 2 * cy) * (y2 - 2 * cy)
                 <= radius2 * radius2}

isRevealed(g, x, y) == Key(x, y) \in g.revealed

isValidMoveAnyCell(g, x, y) ==
    ~(x < 0 \/ x >= mazeLength(g) \/ y < 0 \/ y >= mazeLength(g))

isValidMove(g, x, y) ==
    IF x < 0 \/ x >= mazeLength(g) \/ y < 0 \/ y >= mazeLength(g) THEN FALSE
    ELSE g.maze[y][x] # 0

\* gameOver(win): the game object afterwards.
gameOver(g, win) ==
    [g EXCEPT !.gameActive = FALSE,
              !.timer = FALSE,
              !.timerStale = FALSE,
              !.revealed = IF win
                           THEN @ \cup {Key(x, y) : x \in 0..(mazeLength(g) - 1),
                                                    y \in 0..(mazeLength(g) - 1)}
                           ELSE @]

\* handleKeyPress with the step counter left alone.
handleKeyPressUncounted(g, dx, dy) ==
    LET config == LEVEL_CONFIG[g.currentLevel]
        newX == g.playerPos.x + dx
        newY == g.playerPos.y + dy
        moved == [g EXCEPT !.playerPos = Pos(newX, newY)]
        seen == [moved EXCEPT !.revealed = revealArea(moved, newX, newY, config.vision2)]
    IN IF ~g.gameActive THEN g
       ELSE IF isValidMove(g, newX, newY)
            THEN IF newX = g.exitPos.x /\ newY = g.exitPos.y
                 THEN gameOver(seen, TRUE)
                 ELSE seen
            ELSE g

\* handleKeyPress for a direction key: the game object afterwards.
handleKeyPress(g, dx, dy) ==
    LET config == LEVEL_CONFIG[g.currentLevel]
        newX == g.playerPos.x + dx
        newY == g.playerPos.y + dy
        moved == [g EXCEPT !.playerPos = Pos(newX, newY), !.steps = @ + 1]
        seen == [moved EXCEPT !.revealed = revealArea(moved, newX, newY, config.vision2)]
    IN IF ~g.gameActive THEN g
       ELSE IF isValidMove(g, newX, newY)
            THEN IF newX = g.exitPos.x /\ newY = g.exitPos.y
                 THEN gameOver(seen, TRUE)
                 ELSE seen
            ELSE g

\* startNewGame from the generation of the maze on: the game object
\* afterwards.  A level without a timer leaves a running timer running:
\* timerStale tells that the running interval was set by an earlier game.
startNewGame(g, seed) ==
    LET config == LEVEL_CONFIG[g.currentLevel]
        mazeGen == GameMazes[<<seed, g.currentLevel>>]
        set == [g EXCEPT !.maze = mazeGen.grid,
                         !.playerPos = Pos(mazeGen.startX, mazeGen.startY),
                         !.exitPos = Pos(mazeGen.exitX, mazeGen.exitY),
                         !.steps = 0,
                         !.gameActive = TRUE,
                         !.revealed = {}]
    IN [set EXCEPT !.revealed =
                       revealArea(set, set.playerPos.x, set.playerPos.y, config.vision2)
                           \cup {Key(set.exitPos.x, set.exitPos.y)},
                   !.timer = IF config.timer THEN TRUE ELSE @,
                   !.timerStale = IF config.timer THEN FALSE ELSE g.timer]

\* The game object after its constructor; exitPos is not set yet.
NewGame ==
    [currentLevel |-> 1, maze |-> <<>>, playerPos |-> Pos(0, 0),
     exitPos |-> Pos(-1, -1), steps |-> 0, gameActive |-> FALSE,
     revealed |-> {}, timer |-> FALSE, timerStale |-> FALSE]

Keys == {Pos(0, -1), Pos(0, 1), Pos(-1, 0), Pos(1, 0)}

InitGame == game = NewGame
IdleGame == game = NewGame

SelectLevel(l) == game' = [game EXCEPT !.currentLevel = l]

StartNewGame(seed) == game' = startNewGame(game, seed)

KeyPress(d) ==
    /\ game.steps < MaxSteps
    /\ game' = handleKeyPress(game, d.x, d.y)

TimerExpires ==
    /\ game.timer
    /\ game' = gameOver(game, FALSE)

NextGame ==
    \/ \E l \in Levels : SelectLevel(l)
    \/ \E seed \in GameSeeds : StartNewGame(seed)
    \/ \E d \in Keys : KeyPress(d)
    \/ TimerExpires

(***************************************************************************)
(* SpecClient: the contract calls of one FogMazeGame page (part_002        *)
(* 468-493, 613-696, 875-952) against the contract.  The record client     *)
(* holds the fields these handlers read and write; an async handler is     *)
(* split at its awaits, where other events may run.  Playing is reduced to *)
(* the step counter and to reaching the exit; the maze, the fog and the    *)
(* countdown are SpecGame's.                                               *)
(***************************************************************************)
MaxClock == 1
MaxMoves == 1
\* The accounts the wallet returns, in its order; the levels selected.
Accounts == <<"p1", "p2">>
ClientLevels == {1, 3}
NoTx == [level |-> 0, steps |-> 0, timeTaken |-> 0, blockNumber |-> 0, nonce |-> 0,
         played |-> "none"]

\* The page after the constructor: no wallet, no game, submit button hidden.
NewClient ==
    [userAddress |-> "none", signer |-> "none", currentLevel |-> 1, steps |-> 0,
     startTime |-> 0, gameActive |-> FALSE, seed |-> "none", blockNumber |-> 0,
     nonce |-> 0, startPc |-> "idle", submitPc |-> "idle", tx |-> NoTx,
     shown |-> [timeTaken |-> 0, score |-> 0],
     submitVisible |-> FALSE, submitDisabled |-> FALSE]

InitClient == client = NewClient /\ clock = 0
IdleClient == client = NewClient /\ clock = 0

\* connectWallet with several accounts: userAddress is the account picked in
\* the selector, the signer is provider.getSigner(), the wallet's first.
ConnectWallet(selected) ==
    /\ client.signer = "none"
    /\ client' = [client EXCEPT !.userAddress = selected, !.signer = Accounts[1]]
    /\ UNCHANGED <<ledgerVars, clock>>

ClientSelectLevel(l) ==
    /\ client' = [client EXCEPT !.currentLevel = l]
    /\ UNCHANGED <<ledgerVars, clock>>

\* startNewGame up to its first await.
ClickStart ==
    /\ client.signer # "none"
    /\ client.startPc = "idle"
    /\ client' = [client EXCEPT !.startPc = "getBlock"]
    /\ UNCHANGED <<ledgerVars, clock>>

\* getBlock("latest") resolves: the latest block is the one before the block
\* the next call executes in.  Heights here are far above 1.
GotBlock ==
    /\ client.startPc = "getBlock"
    /\ client' = [client EXCEPT !.blockNumber = (blockNumber - 1) - 1,
                                !.startPc = "getNonce"]
    /\ UNCHANGED <<ledgerVars, clock>>

\* getNextNonce() resolves: the call is made from the signer.
GotNonce ==
    /\ client.startPc = "getNonce"
    /\ client' = [client EXCEPT !.nonce = getNextNonce(client.signer).ret,
                                !.startPc = "getSeed"]
    /\ UNCHANGED <<ledgerVars, clock>>

\* generateSeed(...) resolves and the game is set up, or it rejects and the
\* catch block leaves the fields as they are.
GotSeed ==
    /\ client.startPc = "getSeed"
    /\ LET r == generateSeed(client.blockNumber, client.userAddress, client.nonce)
       IN client' =
             IF r.status = OK
             THEN [client EXCEPT !.seed = r.ret, !.steps = 0, !.startTime = clock,
                                 !.gameActive = TRUE, !.submitVisible = FALSE,
                                 !.startPc = "idle"]
             ELSE [client EXCEPT !.startPc = "idle"]
    /\ UNCHANGED <<ledgerVars, clock>>

\* handleKeyPress, an accepted move that does not reach the exit.
ClientMove ==
    /\ client.gameActive
    /\ client.steps < MaxMoves
    /\ client' = [client EXCEPT !.steps = @ + 1]
    /\ UNCHANGED <<ledgerVars, clock>>

\* handleKeyPress, an accepted move onto the exit, and gameOver(true).
ClientWin ==
    /\ client.gameActive
    /\ client.steps < MaxMoves + 1
    /\ LET steps == client.steps + 1
           timeTaken == clock - client.startTime
       IN client' = [client EXCEPT
             !.steps = steps,
             !.gameActive = FALSE,
             !.shown = [timeTaken |-> timeTaken,
                        score |-> clientCalculateScore(client.currentLevel, steps, timeTaken)],
             !.submitVisible = TRUE]
    /\ UNCHANGED <<ledgerVars, clock>>

\* submitRun up to its first await: the arguments of the transaction.
ClickSubmit ==
    /\ client.submitVisible /\ ~client.submitDisabled
    /\ client.submitPc = "idle"
    /\ client' = [client EXCEPT
          !.submitDisabled = TRUE,
          !.submitPc = "sent",
          !.tx = [level |-> client.currentLevel, steps |-> client.steps,
                  timeTaken |-> clock - client.startTime,
                  blockNumber |-> client.blockNumber, nonce |-> client.nonce,
                  played |-> client.seed]]
    /\ UNCHANGED <<ledgerVars, clock>>

\* The transaction executes; a revert goes to the catch block.
SubmitMined ==
    /\ client.submitPc = "sent"
    /\ SubmitRun(client.signer, client.tx.level, client.tx.steps, client.tx.timeTaken,
                 client.tx.blockNumber, client.tx.nonce)
    /\ client' = IF lastCall'.status = OK
                 THEN [client EXCEPT !.submitPc = "confirmed"]
                 ELSE [client EXCEPT !.submitPc = "idle", !.submitDisabled = FALSE]
    /\ UNCHANGED clock

\* submitRun after tx.wait(): incrementNonce, then the button is hidden.
NonceSent ==
    /\ client.submitPc = "confirmed"
    /\ IncrementNonce(client.signer)
    /\ client' = [client EXCEPT !.submitPc = "idle", !.submitVisible = FALSE]
    /\ UNCHANGED clock

Tick ==
    /\ clock < MaxClock
    /\ clock' = clock + 1
    /\ UNCHANGED <<ledgerVars, client>>

NextClient ==
    \/ \E a \in {Accounts[k] : k \in DOMAIN Accounts} : ConnectWallet(a)
    \/ \E l \in ClientLevels : ClientSelectLevel(l)
    \/ ClickStart
    \/ GotBlock
    \/ GotNonce
    \/ GotSeed
    \/ ClientMove
    \/ ClientWin
    \/ ClickSubmit
    \/ SubmitMined
    \/ NonceSent
    \/ Tick
    \/ (Mine /\ UNCHANGED clientVars)

Init == InitLedger /\ IdleScore /\ IdleMaze /\ IdleGame /\ IdlePrng /\ IdleClient
Next == NextLedger /\ UNCHANGED <<scoreVars, mazeVars, gameVars, prngVars, clientVars>>
Spec == Init /\ [][Next]_vars

InitS == IdleLedger /\ InitScore /\ IdleMaze /\ IdleGame /\ IdlePrng /\ IdleClient
NextS == NextScore /\ UNCHANGED <<ledgerVars, mazeVars, gameVars, prngVars, clientVars>>
SpecScore == InitS /\ [][NextS]_vars

InitM == IdleLedger /\ IdleScore /\ InitMaze /\ IdleGame /\ IdlePrng /\ IdleClient
NextM == NextMaze /\ UNCHANGED <<ledgerVars, scoreVars, gameVars, prngVars, clientVars>>
SpecMaze == InitM /\ [][NextM]_vars

InitG == IdleLedger /\ IdleScore /\ IdleMaze /\ InitGame /\ IdlePrng /\ IdleClient
NextG == NextGame /\ UNCHANGED <<ledgerVars, scoreVars, mazeVars, prngVars, clientVars>>
SpecGame == InitG /\ [][NextG]_vars

InitP == IdleLedger /\ IdleScore /\ IdleMaze /\ IdleGame /\ InitPrng /\ IdleClient
NextP == NextPrng /\ UNCHANGED <<ledgerVars, scoreVars, mazeVars, gameVars, clientVars>>
SpecPrng == InitP /\ [][NextP]_vars

InitC == IdleLedger /\ IdleScore /\ IdleMaze /\ IdleGame /\ IdlePrng /\ InitClient
NextC == NextClient /\ UNCHANGED <<scoreVars, mazeVars, gameVars, prngVars>>
SpecClient == InitC /\ [][NextC]_vars


(***************************************************************************)
(* Properties.                                                             *)
(***************************************************************************)
\* The step is the transaction submitRun(sub) sent by p.
Submit(p, sub) ==
    /\ lastCall'.op = "submitRun"
    /\ lastCall'.sender = p
    /\ SubmitRun(p, sub[1], sub[2], sub[3], sub[4], sub[5])

GridCells(g) == (0..(g.gridSize - 1)) \X (0..(g.gridSize - 1))
CellsCoded(g, code) == {c \in GridCells(g) : g.grid[c[2]][c[1]] = code}
NonWall(g) == {c \in GridCells(g) : g.grid[c[2]][c[1]] # WALL}

\* C3: for size >= 2 the finished grid holds exactly one cell coded start
\* and exactly one cell coded exit, at the start and exit positions, which
\* are different cells.
C3_OneStartOneExit ==
    \A i \in Instances :
        (gen[i].pc = "done" /\ gen[i].size >= 2) =>
            /\ CellsCoded(gen[i], START) = {<<gen[i].startX, gen[i].startY>>}
            /\ CellsCoded(gen[i], EXIT) = {<<gen[i].exitX, gen[i].exitY>>}
            /\ <<gen[i].startX, gen[i].startY>> # <<gen[i].exitX, gen[i].exitY>>

C3_Witness == gen[1].pc = "done" /\ gen[1].size = 8 /\ gen[1].level = 6

\* The non-wall cells axis-adjacent to cell c.
Neighbours(g, c) ==
    {n \in {<<c[1], c[2] - 1>>, <<c[1] + 1, c[2]>>, <<c[1], c[2] + 1>>, <<c[1] - 1, c[2]>>} :
        isValid(g, n[1], n[2]) /\ g.grid[n[2]][n[1]] # WALL}

\* One more step of a breadth-first search, and eight of them.
Grow(g, r) ==
    LET new == UNION {Neighbours(g, c) : c \in r.frontier} \ r.seen
    IN [seen |-> r.seen \cup new, frontier |-> new]
Grow8(g, r) == Grow(g, Grow(g, Grow(g, Grow(g, Grow(g, Grow(g, Grow(g, Grow(g, r))))))))

RECURSIVE ReachLoop(_, _)
ReachLoop(g, r) == IF r.frontier = {} THEN r.seen ELSE ReachLoop(g, Grow8(g, r))

\* The cells reachable from cell c through axis-adjacent non-wall cells.
Reach(g, c) == ReachLoop(g, [seen |-> {c}, frontier |-> {c}])

Centre(g) == <<(g.size \div 2) * 2 + 1, (g.size \div 2) * 2 + 1>>

C4_Connected ==
    \A i \in Instances :
        /\ gen[i].pc \in {"braid", "pick", "mark"} =>
              Reach(gen[i], Centre(gen[i])) = NonWall(gen[i])
        /\ (gen[i].pc = "done" /\ gen[i].size >= 2) =>
              Reach(gen[i], <<gen[i].startX, gen[i].startY>>) = NonWall(gen[i])

C4_BraidOnlyOpens ==
    \A i \in Instances :
        (gen[i].pc = "braid" /\ gen'[i].pc = "pick") =>
            \A c \in NonWall(gen[i]) : gen'[i].grid[c[2]][c[1]] = gen[i].grid[c[2]][c[1]]

\* C4: after carving, after braiding and in the finished grid every
\* non-wall cell is reachable through axis-adjacent non-wall cells (from the
\* start cell once it is placed, for size >= 2), and braiding changes no
\* cell that is not a wall.
C4_Reachable == []C4_Connected /\ [][C4_BraidOnlyOpens]_vars

\* A finished maze of size 8 in which braiding has opened a wall: it has
\* more non-wall cells than the 2 * 64 - 1 of the spanning tree.
C4_Witness ==
    gen[1].pc = "done" /\ gen[1].size = 8 /\ Cardinality(NonWall(gen[1])) > 127

C6_SeedPure ==
    \A bn \in SeedRefs, p \in Players, n \in Nonces :
        generateSeed(bn, p, n).status = OK =>
            generateSeed(bn, p, n).ret = keccak256Packed(ChainHash(bn), p, n)

C6_Witness ==
    /\ blockNumber > StartHeight
    /\ Len(events) > 0
    /\ playerNonces["p1"] > 0
    /\ generateSeed(StartHeight - 1, "p1", 0).status = OK

C7_AtMostCap == \A p \in Players : Len(playerRuns[p]) <= MAX_RUNS_PER_PLAYER

\* C7 as stated: a submitRun by a player who has 100 records fails with
\* "Max runs reached" and leaves the sequence unchanged.
C7_Original ==
    [][\A p \in Players, sub \in Submissions :
          (Len(playerRuns[p]) = MAX_RUNS_PER_PLAYER /\ Submit(p, sub)) =>
              (lastCall'.status = ERR_MAX_RUNS /\ UNCHANGED playerRuns)]_vars

C7_AtCapStep ==
    \A p \in Players :
        Len(playerRuns[p]) = MAX_RUNS_PER_PLAYER =>
            /\ playerRuns'[p] = playerRuns[p]
            /\ \A sub \in Submissions :
                  Submit(p, sub) =>
                      lastCall'.status = (IF sub[1] > 0 THEN ERR_MAX_RUNS ELSE ERR_LEVEL)

\* C7, amended: no sequence ever holds more than 100 records; a submitRun by
\* a player who has 100 records fails, with "Max runs reached" when level > 0
\* and with "Invalid level" when level = 0; no step changes a sequence of
\* 100 records, so every later submission of that player fails the same way.
C7_Capacity == []C7_AtMostCap /\ [][C7_AtCapStep]_vars

C7_Witness ==
    /\ lastCall = Call("submitRun", "p1", ERR_MAX_RUNS)
    /\ Len(playerRuns["p1"]) = MAX_RUNS_PER_PLAYER
    /\ Len(events) > 0

C8_LevelFirst ==
    \A p \in Players, sub \in Submissions, bn \in SeedRefs :
        submitRunStatus(p, 0, sub[2], sub[3], bn, sub[5]) = ERR_LEVEL

C8_LevelStep ==
    \A p \in Players, sub \in Submissions :
        (sub[1] = 0 /\ Submit(p, sub)) =>
            /\ lastCall'.status = ERR_LEVEL
            /\ UNCHANGED <<playerRuns, playerNonces, events>>

\* C8: submitRun with level = 0 fails with "Invalid level" whatever the
\* sender's run count, the block reference and the nonce are, and changes no
\* run sequence and no nonce counter.
C8_InvalidLevel == []C8_LevelFirst /\ [][C8_LevelStep]_vars

\* A level-0 submission by a player at the cap has failed for its level.
C8_Witness ==
    /\ lastCall = Call("submitRun", "p1", ERR_LEVEL)
    /\ Len(playerRuns["p1"]) = MAX_RUNS_PER_PLAYER

C9_SeedErrorStep ==
    \A p \in Players, sub \in Submissions :
        (sub[1] > 0 /\ Len(playerRuns[p]) < MAX_RUNS_PER_PLAYER /\ Submit(p, sub)) =>
            /\ sub[4] >= blockNumber => lastCall'.status = ERR_NOT_MINED
            /\ (sub[4] < blockNumber /\ blockNumber - sub[4] > 256) =>
                  lastCall'.status = ERR_TOO_OLD
            /\ lastCall'.status \in {ERR_NOT_MINED, ERR_TOO_OLD} =>
                  UNCHANGED <<playerRuns, playerNonces, events>>

\* C9: submitRun with level > 0 by a player below the cap fails with the
\* error of the seed derivation (stale when the block reference is not below
\* the current height, expired when it is more than 256 blocks old), and then
\* appends no record, emits no event and changes no nonce.
C9_SeedErrorAtomic == [][C9_SeedErrorStep]_vars

C9_Witness ==
    /\ lastCall = Call("submitRun", "p2", ERR_TOO_OLD)
    /\ Len(playerRuns["p2"]) = MAX_RUNS_PER_PLAYER - MaxEvents
    /\ Len(events) = 0

C10_AppendStep ==
    \A p \in Players, sub \in Submissions :
        (Submit(p, sub) /\ lastCall'.status = OK) =>
            /\ playerRuns'[p] =
                  Append(playerRuns[p],
                         [level |-> sub[1], steps |-> sub[2], timeTaken |-> sub[3],
                          seed |-> generateSeed(sub[4], p, sub[5]).ret,
                          timestamp |-> blockTimestamp, nonce |-> sub[5]])
            /\ Len(playerRuns'[p]) = Len(playerRuns[p]) + 1
            /\ \A i \in 1..Len(playerRuns[p]) : playerRuns'[p][i] = playerRuns[p][i]

\* C10: a successful submitRun(level, steps, timeTaken, blockNumber, nonce)
\* by p appends one record (level, steps, timeTaken, generateSeed(blockNumber,
\* p, nonce), block.timestamp, nonce) to the end of p's sequence: the count
\* grows by 1 and every stored record keeps its position and values.
C10_AppendsOneRecord == [][C10_AppendStep]_vars

C10_Witness ==
    /\ lastCall = Call("submitRun", "p1", OK)
    /\ Len(playerRuns["p1"]) = MAX_RUNS_PER_PLAYER
    /\ blockNumber > StartHeight


C11_StartsAtZero == \A p \in Players : playerNonces[p] = 0

C11_NonceStep ==
    \A p \in Players :
        playerNonces'[p] = playerNonces[p] + (IF IncrementNonce(p) THEN 1 ELSE 0)

\* C11: a player's nonce counter starts at 0, grows by exactly 1 in each
\* incrementNonce step of that player and is changed by no other step
\* (submitRun, successful or failed, by anyone; incrementNonce of another
\* player; a new block), whatever the player's run count is; the views
\* generateSeed and getNextNonce change no state.
C11_NonceCounter == C11_StartsAtZero /\ [][C11_NonceStep]_vars

\* The counter was advanced, and then a submission of the same player with
\* the old nonce succeeded without advancing it.
C11_Witness ==
    /\ playerNonces["p1"] = MaxNonce
    /\ lastCall = Call("submitRun", "p1", OK)
    /\ Len(playerRuns["p1"]) = MAX_RUNS_PER_PLAYER

C12_OthersStep ==
    \A a \in Players :
        ((\E sub \in Submissions : Submit(a, sub)) \/ IncrementNonce(a)) =>
            \A b \in Players \ {a} :
                /\ playerRuns'[b] = playerRuns[b]
                /\ Len(playerRuns'[b]) = Len(playerRuns[b])
                /\ playerNonces'[b] = playerNonces[b]

\* C12: a submitRun or incrementNonce step sent by player a leaves the run
\* sequence, the run count and the nonce counter of every other player
\* unchanged.
C12_PlayersIndependent == [][C12_OthersStep]_vars

\* p2 has submitted successfully while p1 holds records and an advanced nonce.
C12_Witness ==
    /\ lastCall = Call("submitRun", "p2", OK)
    /\ Len(playerRuns["p2"]) = 1
    /\ Len(playerRuns["p1"]) = MAX_RUNS_PER_PLAYER - MaxEvents
    /\ playerNonces["p1"] > 0

\* The scores of the stored records of a player.
RecordScores(p) ==
    {calculateScore(playerRuns[p][i].level, playerRuns[p][i].steps,
                    playerRuns[p][i].timeTaken) : i \in 1..Len(playerRuns[p])}

SetMax(S) == CHOOSE m \in S : \A n \in S : n <= m

\* C13: getBestScore(player) succeeds and returns the maximum of
\* calculateScore over the player's stored records, and 0 when the player
\* has no records.
C13_BestScoreIsMax ==
    \A p \in Players :
        /\ \A r \in RecordScores(p) : r.status = OK
        /\ getBestScore(p) = Ret(SetMax({0} \cup {r.ret : r \in RecordScores(p)}))
        /\ playerRuns[p] = <<>> => getBestScore(p) = Ret(0)

\* The best record is not the last one: 99 records scoring 920 and then one
\* scoring 0.
C13_Witness ==
    /\ Len(playerRuns["p1"]) = MAX_RUNS_PER_PLAYER
    /\ playerRuns["p1"][MAX_RUNS_PER_PLAYER].steps = 500
    /\ getBestScore("p1") = Ret(920)
    /\ getBestScore("p2") = Ret(0)


\* The square of the distance, in half cells, between a revealed key and the
\* player's cell.
Dist2(k, pos) ==
    (k[1] - 2 * pos.x) * (k[1] - 2 * pos.x) + (k[2] - 2 * pos.y) * (k[2] - 2 * pos.y)

ExitKey(g) == Key(g.exitPos.x, g.exitPos.y)

\* The revealed set of g holds nothing but the exit beyond the vision radius
\* of level l around the player.
WithinVision(g, l) ==
    \A k \in g.revealed \ {ExitKey(g)} :
        Dist2(k, g.playerPos) <= LEVEL_CONFIG[l].vision2 * LEVEL_CONFIG[l].vision2

C14_ExitVisible == game.gameActive => ExitKey(game) \in game.revealed

\* The step recomputes the revealed set: a game start or an accepted move.
RevealStep ==
    \/ \E seed \in GameSeeds : StartNewGame(seed)
    \/ (\E d \in Keys : KeyPress(d)) /\ game'.steps = game.steps + 1

C14_RevealBounded ==
    (RevealStep /\ game'.gameActive) => WithinVision(game', game'.currentLevel)

C14_ElseKept ==
    (game.gameActive /\ game'.gameActive /\ ~RevealStep) =>
        (game'.revealed = game.revealed /\ game'.playerPos = game.playerPos)

C15_Original ==
    game.gameActive =>
        \A l \in Levels :
            LET seen == revealArea(game, game.playerPos.x, game.playerPos.y,
                                   LEVEL_CONFIG[l].vision2)
            IN \A dx \in -2..2, dy \in -2..2 :
                  LET x == game.playerPos.x + dx
                      y == game.playerPos.y + dy
                  IN (/\ x >= 0 /\ x < mazeLength(game)
                      /\ y >= 0 /\ y < mazeLength(game)
                      /\ 4 * (dx * dx + dy * dy)
                            <= LEVEL_CONFIG[l].vision2 * LEVEL_CONFIG[l].vision2)
                     => Key(x, y) \in seen

\* The target cell is outside the grid or wall-coded.
Blocked(g, x, y) ==
    \/ x < 0 \/ x >= mazeLength(g) \/ y < 0 \/ y >= mazeLength(g)
    \/ g.maze[y][x] = WALL

C16_RejectedStep ==
    \A d \in Keys :
        (/\ game.gameActive
         /\ Blocked(game, game.playerPos.x + d.x, game.playerPos.y + d.y)
         /\ KeyPress(d))
        => /\ game'.playerPos = game.playerPos
           /\ game'.steps = game.steps
           /\ game'.revealed = game.revealed
           /\ game'.gameActive = game.gameActive

\* C16: a move of an active game whose target cell is outside the grid or
\* wall-coded changes neither the position, nor the step counter, nor the
\* revealed set, nor the game-active flag.
C16_RejectedMoveNoOp == [][C16_RejectedStep]_vars

\* The player stands on the opened ring cell (1, 0): the move up leaves the
\* grid, the moves left and right hit walls.
C16_Witness ==
    /\ game.gameActive
    /\ game.playerPos = Pos(1, 0)
    /\ game.steps > 0
    /\ Blocked(game, 1, -1) /\ Blocked(game, 0, 0) /\ Blocked(game, 2, 0)


\* The products and the sum of calculateScore fit the unsigned integers.
ScoreFits(level, steps, timeTaken) ==
    /\ level * 1000 <= UintMax
    /\ steps * 2 <= UintMax
    /\ timeTaken * 3 <= UintMax
    /\ steps * 2 + timeTaken * 3 <= UintMax

\* C17: for every (level, steps, timeTaken) whose products and sum fit the
\* authority's unsigned integers, the authority's calculateScore succeeds
\* and the calculateScore of FogMazeGame and of DemoGame return its value.
C17_ClientScoreAgrees ==
    ScoreFits(scoreArgs[1], scoreArgs[2], scoreArgs[3]) =>
        \A c \in Clients :
            (scoreRet # NoScore /\ clientScore[c].called) =>
                scoreRet = Ret(clientScore[c].ret)

\* All three functions have returned, the penalty exceeds the base score and
\* all agree on 0.
C17_Witness ==
    /\ scoreArgs = <<1, 500, 500>>
    /\ scoreRet = Ret(0)
    /\ clientScore["FogMazeGame"] = Returned(0)
    /\ clientScore["DemoGame"] = Returned(0)

\* C18 as stated: the authority's calculateScore returns a score and never
\* fails, for every input of its unsigned-integer domain.
C18_Original == scoreRet # NoScore => scoreRet.status = OK


\* Every path cell of the whole grid with exactly one path-coded neighbour.
AllDeadEnds(g) ==
    {c \in GridCells(g) :
        g.grid[c[2]][c[1]] = PATH /\ countNeighborPaths(g, c[1], c[2]) = 1}

\* C19 as stated: after carving, findDeadEnds returns a permutation of the
\* set of all dead ends of the whole (2*size+1) x (2*size+1) grid.
C19_Original ==
    \A i \in Instances :
        gen[i].pc = "braid" =>
            LET found == findDeadEnds(gen[i]).arr
            IN /\ {<<found[k].x, found[k].y>> : k \in 1..Len(found)} = AllDeadEnds(gen[i])
               /\ Len(found) = Cardinality(AllDeadEnds(gen[i]))

OnRing(g, c) ==
    c[1] = 0 \/ c[2] = 0 \/ c[1] = g.gridSize - 1 \/ c[2] = g.gridSize - 1

\* C20 as stated: every wall cell that braiding opens is off the outermost
\* ring and joins two path cells (it has at least two path-coded
\* neighbours), so it closes a cycle and is no dead-end stub.
C20_Original ==
    [][\A i \in Instances :
          (gen[i].pc = "braid" /\ gen'[i].pc = "pick") =>
              \A c \in GridCells(gen[i]) :
                  (gen[i].grid[c[2]][c[1]] = WALL /\ gen'[i].grid[c[2]][c[1]] # WALL) =>
                      /\ ~OnRing(gen[i], c)
                      /\ countNeighborPaths(gen'[i], c[1], c[2]) >= 2]_vars

\* The logical cells marked visited, and the grid cell of a logical cell.
Visited(g) ==
    {c \in (0..(g.size - 1)) \X (0..(g.size - 1)) : g.visited[c[2]][c[1]]}
GridOf(c) == <<2 * c[1] + 1, 2 * c[2] + 1>>

\* A wall cell between two horizontally or vertically adjacent logical cells.
Connecting(g, w) ==
    /\ w[1] \in 1..(g.gridSize - 2) /\ w[2] \in 1..(g.gridSize - 2)
    /\ (w[1] + w[2]) % 2 = 1

\* What is left of recursiveBacktrack: the directions still to be tried in
\* the open calls, and six for every logical cell not yet visited.
RECURSIVE SumPending(_)
SumPending(stack) ==
    IF stack = <<>> THEN 0 ELSE (6 - stack[1].k) + SumPending(Tail(stack))
Pending(g) ==
    6 * (g.size * g.size - Cardinality(Visited(g))) + SumPending(g.stack)

C21_Start ==
    \A i \in Instances :
        (gen[i].pc = "new" /\ gen'[i].pc # "new") =>
            /\ Len(gen'[i].stack) = 1
            /\ gen'[i].stack[1].cellX = gen'[i].size \div 2
            /\ gen'[i].stack[1].cellY = gen'[i].size \div 2
            /\ Visited(gen'[i]) = {<<gen'[i].size \div 2, gen'[i].size \div 2>>}
            /\ NonWall(gen'[i]) = {Centre(gen'[i])}

C21_Carve ==
    \A i \in Instances :
        (gen[i].pc = "carve" /\ gen'[i] # gen[i]) =>
            LET g == gen[i]
                h == gen'[i]
                top == g.stack[Len(g.stack)]
            IN /\ Pending(h) < Pending(g)
               /\ Pending(h) >= 0
               /\ \/ Visited(h) = Visited(g) /\ h.grid = g.grid
                  \/ \E c \in Visited(h) \ Visited(g) :
                        LET w == <<top.cellX + c[1] + 1, top.cellY + c[2] + 1>>
                        IN /\ Visited(h) = Visited(g) \cup {c}
                           /\ Connecting(g, w)
                           /\ {GridOf(c), w} \cap NonWall(g) = {}
                           /\ NonWall(h) = NonWall(g) \cup {GridOf(c), w}
                           /\ h.grid[w[2]][w[1]] = PATH
                           /\ h.grid[2 * c[2] + 1][2 * c[1] + 1] = PATH

C21_Tree ==
    \A i \in Instances :
        gen[i].pc = "braid" =>
            LET g == gen[i]
                opened == {w \in NonWall(g) : Connecting(g, w)}
            IN /\ g.stack = <<>>
               /\ Cardinality(Visited(g)) = g.size * g.size
               /\ NonWall(g) = CellsCoded(g, PATH)
               /\ NonWall(g) = {GridOf(c) : c \in Visited(g)} \cup opened
               /\ Cardinality(opened) = g.size * g.size - 1
               /\ Reach(g, Centre(g)) = NonWall(g)
               /\ \A w \in opened :
                     Reach(SetGrid(g, w[1], w[2], WALL), Centre(g)) # NonWall(g) \ {w}

OnBorder(g, side, c) ==
    /\ c \in GridCells(g)
    /\ CASE side = 0 -> c[2] = 1
         [] side = 1 -> c[1] = g.gridSize - 2
         [] side = 2 -> c[2] = g.gridSize - 2
         [] side = 3 -> c[1] = 1

C22_Pick ==
    \A i \in Instances :
        (gen[i].pc = "pick" /\ gen'[i].pc = "mark" /\ gen[i].size >= 2) =>
            LET g == gen[i]
                side == nextInt(g.prng, 0, 4).value
                start == <<gen'[i].startX, gen'[i].startY>>
                exit == <<gen'[i].exitX, gen'[i].exitY>>
            IN /\ side \in 0..3
               /\ OnBorder(g, side, start)
               /\ g.grid[start[2]][start[1]] = PATH
               /\ OnBorder(g, (side + 2) % 4, exit)
               /\ g.grid[exit[2]][exit[1]] = PATH
               /\ gen'[i].grid = g.grid

C22_Mark ==
    \A i \in Instances :
        (gen[i].pc = "mark" /\ gen'[i].pc = "done" /\ gen[i].size >= 2) =>
            LET g == gen[i]
                start == <<g.startX, g.startY>>
                exit == <<g.exitX, g.exitY>>
            IN /\ gen'[i].startX = g.startX /\ gen'[i].startY = g.startY
               /\ gen'[i].exitX = g.exitX /\ gen'[i].exitY = g.exitY
               /\ gen'[i].grid[start[2]][start[1]] = START
               /\ gen'[i].grid[exit[2]][exit[1]] = EXIT
               /\ \A c \in GridCells(g) \ {start, exit} :
                     gen'[i].grid[c[2]][c[1]] = g.grid[c[2]][c[1]]

C22_Opposite ==
    \A i \in Instances :
        (gen[i].pc \in {"mark", "done"} /\ gen[i].size >= 2) =>
            \E side \in 0..3 :
                /\ OnBorder(gen[i], side, <<gen[i].startX, gen[i].startY>>)
                /\ OnBorder(gen[i], (side + 2) % 4, <<gen[i].exitX, gen[i].exitY>>)

\* C22: for size >= 2, pickStartAndExit draws a side in 0..3 and sets the
\* start to a path-coded cell on the border of that side and the exit to a
\* path-coded cell on the border of side (side + 2) mod 4; generate() then
\* overwrites these two cells, and no other, with the codes 2 and 3.
C22_OppositeBorders == []C22_Opposite /\ [][C22_Pick /\ C22_Mark]_vars

C22_Witness ==
    /\ gen[2].pc = "done" /\ gen[2].size = 8
    /\ gen[2].grid[gen[2].startY][gen[2].startX] = START
    /\ gen[2].grid[gen[2].exitY][gen[2].exitX] = EXIT
    /\ \/ (gen[2].startY = 1 /\ gen[2].exitY = gen[2].gridSize - 2)
       \/ (gen[2].startX = 1 /\ gen[2].exitX = gen[2].gridSize - 2)
       \/ (gen[2].exitY = 1 /\ gen[2].startY = gen[2].gridSize - 2)
       \/ (gen[2].exitX = 1 /\ gen[2].startX = gen[2].gridSize - 2)

\* The bytes of a 32-bit value, least significant first.
BytesOf(n) == [k \in 0..3 |-> (n \div (256 ^ k)) % 256]
StateBytes(st) ==
    [k \in 0..3 |-> CASE k = 0 -> st.lo % 256
                      [] k = 1 -> st.lo \div 256
                      [] k = 2 -> st.hi % 256
                      [] k = 3 -> st.hi \div 256]

\* (1664525 * st + 1013904223) mod 2^32 by long multiplication in bytes.
LcgOf(st) ==
    LET a == BytesOf(LCG_A)
        c == BytesOf(LCG_C)
        b == StateBytes(st)
        t0 == a[0] * b[0] + c[0]
        t1 == a[0] * b[1] + a[1] * b[0] + c[1] + (t0 \div 256)
        t2 == a[0] * b[2] + a[1] * b[1] + a[2] * b[0] + c[2] + (t1 \div 256)
        t3 == a[0] * b[3] + a[1] * b[2] + a[2] * b[1] + a[3] * b[0] + c[3] + (t2 \div 256)
    IN [hi |-> (t2 % 256) + 256 * (t3 % 256), lo |-> (t0 % 256) + 256 * (t1 % 256)]

RECURSIVE LcgIterate(_, _)
LcgIterate(n, st) == IF n = 0 THEN st ELSE LcgIterate(n - 1, LcgOf(st))

Abs(n) == IF n < 0 THEN -n ELSE n

C24_OnOpenCell ==
    game.gameActive =>
        /\ game.playerPos.x \in 0..(mazeLength(game) - 1)
        /\ game.playerPos.y \in 0..(mazeLength(game) - 1)
        /\ game.maze[game.playerPos.y][game.playerPos.x] # WALL

C24_MoveStep ==
    \A d \in Keys :
        (game.gameActive /\ KeyPress(d)) =>
            LET accepted == game'.playerPos # game.playerPos
                ddx == game'.playerPos.x - game.playerPos.x
                ddy == game'.playerPos.y - game.playerPos.y
            IN /\ accepted <=> ~Blocked(game, game.playerPos.x + d.x, game.playerPos.y + d.y)
               /\ accepted =>
                     /\ (Abs(ddx) = 1 /\ ddy = 0) \/ (ddx = 0 /\ Abs(ddy) = 1)
                     /\ game'.playerPos = Pos(game.playerPos.x + d.x, game.playerPos.y + d.y)
                     /\ game'.steps = game.steps + 1
               /\ ~accepted => game'.steps = game.steps

\* C24: while the game is active the player position is inside the grid and
\* on a cell that is not wall-coded; a key move of an active game is
\* accepted iff its target is inside the grid and not wall-coded; an accepted
\* move changes exactly one coordinate by exactly 1 and adds exactly 1 to
\* the step counter.
C24_ValidMoves == []C24_OnOpenCell /\ [][C24_MoveStep]_vars

\* Two accepted moves into the maze, the game still going on.
C24_Witness ==
    /\ game.gameActive /\ game.steps = 2
    /\ game.maze[game.playerPos.y][game.playerPos.x] = PATH
    /\ \E d \in Keys : Blocked(game, game.playerPos.x + d.x, game.playerPos.y + d.y)

\* The cells a border scan visits: the odd positions of the side's line.
Scanned(g, side) == {c \in GridCells(g) : OnBorder(g, side, c) /\ c[1] % 2 = 1 /\ c[2] % 2 = 1}

C25_FullBorders ==
    \A i \in Instances :
        gen[i].pc = "pick" =>
            \A side \in 0..3 :
                /\ Len(getEdgePathCells(gen[i], side)) = gen[i].size
                /\ Cardinality(Scanned(gen[i], side)) = gen[i].size
                /\ \A c \in Scanned(gen[i], side) : gen[i].grid[c[2]][c[1]] = PATH

C25_ThreeDraws ==
    \A i \in Instances :
        (gen[i].pc = "pick" /\ gen'[i].pc = "mark") =>
            /\ gen'[i].prng = next(next(next(gen[i].prng)))
            /\ \E side \in 0..3 :
                  /\ <<gen'[i].startX, gen'[i].startY>> \in Scanned(gen[i], side)
                  /\ <<gen'[i].exitX, gen'[i].exitY>> \in Scanned(gen[i], (side + 2) % 4)

\* C25: when pickStartAndExit runs, every border scan of getEdgePathCells
\* returns exactly size path cells, for every size >= 1; so neither
\* fallback is taken, start and exit are scanned cells, and the selection
\* consumes exactly three draws.
C25_NoFallback == []C25_FullBorders /\ [][C25_ThreeDraws]_vars

\* Selection done on a braided maze of size 8.
C25_Witness ==
    gen[1].pc = "mark" /\ gen[1].size = 8 /\ Cardinality(NonWall(gen[1])) > 127

\* Two seeds with the same first 4 bytes, or with first 4 bytes 0 and 1.
SameHead(a, b) ==
    \/ a.head = b.head
    \/ {a.head, b.head} = {[hi |-> 0, lo |-> 0], [hi |-> 0, lo |-> 1]}

NonceFreeOutcome(p, sub) ==
    IF sub[1] = 0 THEN ERR_LEVEL
    ELSE IF Len(playerRuns[p]) >= MAX_RUNS_PER_PLAYER THEN ERR_MAX_RUNS
    ELSE IF sub[4] >= blockNumber THEN ERR_NOT_MINED
    ELSE IF blockNumber - sub[4] > BLOCK_WINDOW THEN ERR_TOO_OLD
    ELSE IF ScoreFits(sub[1], sub[2], sub[3]) THEN OK
    ELSE ERR_PANIC

C30_AnyNonceStep ==
    \A p \in Players, sub \in Submissions :
        Submit(p, sub) =>
            /\ lastCall'.status = NonceFreeOutcome(p, sub)
            /\ lastCall'.status = OK =>
                  /\ Len(playerRuns'[p]) = Len(playerRuns[p]) + 1
                  /\ playerRuns'[p][Len(playerRuns'[p])].nonce = sub[5]
                  /\ playerRuns'[p][Len(playerRuns'[p])].seed =
                        keccak256Packed(ChainHash(sub[4]), p, sub[5])

\* C30: the outcome of submitRun is the same whatever the nonce, the
\* sender's nonce counter and the (blockNumber, nonce) pairs of the sender's
\* earlier records are (the records count only through the capacity
\* check); an accepted submission stores the nonce and the seed it names,
\* also when the nonce differs from the counter and when an earlier record
\* of the sender holds the same seed.
C30_AnyNonceAccepted == [][C30_AnyNonceStep]_vars

\* An accepted submission whose nonce 0 differs from the counter 1 and whose
\* seed an earlier record of the sender already holds.
C30_Witness ==
    /\ lastCall = Call("submitRun", "p2", OK)
    /\ playerNonces["p2"] = 1
    /\ Len(playerRuns["p2"]) = MAX_RUNS_PER_PLAYER
    /\ playerRuns["p2"][MAX_RUNS_PER_PLAYER].nonce = 0
    /\ playerRuns["p2"][MAX_RUNS_PER_PLAYER].seed = playerRuns["p2"][1].seed

\* C28 as stated: a timer that expires was started by the game it ends,
\* never by a game that startNewGame has since replaced.
C28_Original ==
    [][(TimerExpires /\ game.gameActive) => ~game.timerStale]_vars

\* The client's transaction has just been accepted by the contract.
Confirmed == client.submitPc = "sent" /\ client'.submitPc = "confirmed"

\* C27 as stated: the seed of the record stored for a submission of the
\* client equals the seed from which the client generated the maze whose
\* steps it submitted.
C27_Original ==
    [][Confirmed =>
          playerRuns'[client.signer][Len(playerRuns'[client.signer])].seed
              = client.tx.played]_vars

\* C29 as stated: the timeTaken passed to submitRun is the one computed
\* when the exit was reached, and the contract's score for the arguments
\* passed is the score displayed then.
C29_Original ==
    [][(client.submitPc = "idle" /\ client'.submitPc = "sent") =>
          /\ client'.tx.timeTaken = client.shown.timeTaken
          /\ calculateScore(client'.tx.level, client'.tx.steps, client'.tx.timeTaken)
                = Ret(client.shown.score)]_vars

====
